---- MODULE Spec2Model ----
(***************************************************************************)
(* The HAR 1.2 document model of src/src/lib.rs and its serde codec.       *)
(*                                                                         *)
(* Every type of lib.rs derives Serialize and Deserialize with             *)
(* #[serde(rename_all = "camelCase")] and no other attribute, so the codec *)
(* is the one the derive generates: a struct is a JSON object with one key *)
(* per field, an Option is null or the value, a Vec is an array, and an    *)
(* enum is externally tagged.  Serialize and Deserialize below are that    *)
(* codec, driven by the struct and enum declarations of lib.rs.            *)
(***************************************************************************)
EXTENDS Integers, Sequences, FiniteSets, TLC

\* Longest Vec that is built or generated.
MaxLen == 2
\* Largest number used as a field value.
MaxNum == 2

-----------------------------------------------------------------------------
(* Rust types, as the declarations of lib.rs name them. *)

TString == [k |-> "String"]
TI32 == [k |-> "i32"]
TU32 == [k |-> "u32"]
TBool == [k |-> "bool"]
TOption(T) == [k |-> "Option", of |-> T]
TVec(T) == [k |-> "Vec", of |-> T]
TStruct(n) == [k |-> "struct", name |-> n]
TEnum(n) == [k |-> "enum", name |-> n]

\* A struct field: its snake_case name split at "_", and its type.
Field(words, ty) == [w |-> words, ty |-> ty]
\* An enum variant: its PascalCase name split into words, and its payload
\* (<<>> for a unit variant, <<T>> for a newtype variant).
Variant(words, payload) == [w |-> words, payload |-> payload]

Log ==
  << Field(<<"version">>, TString),
     Field(<<"creator">>, TStruct("Creator")),
     Field(<<"browser">>, TOption(TStruct("Browser"))),
     Field(<<"pages">>, TOption(TVec(TStruct("Page")))),
     Field(<<"entries">>, TVec(TStruct("Entry"))),
     Field(<<"comment">>, TOption(TString)) >>

Creator ==
  << Field(<<"name">>, TString),
     Field(<<"version">>, TString),
     Field(<<"comment">>, TOption(TString)) >>

Browser ==
  << Field(<<"name">>, TString),
     Field(<<"version">>, TString),
     Field(<<"comment">>, TOption(TString)) >>

Page ==
  << Field(<<"started", "date", "time">>, TString),
     Field(<<"id">>, TString),
     Field(<<"title">>, TString),
     Field(<<"page", "timings">>, TStruct("PageTimings")),
     Field(<<"comment">>, TOption(TString)) >>

PageTimings ==
  << Field(<<"on", "content", "load">>, TEnum("OptionalTiming")),
     Field(<<"on", "load">>, TEnum("OptionalTiming")),
     Field(<<"comment">>, TOption(TString)) >>

Entry ==
  << Field(<<"pageref">>, TOption(TString)),
     Field(<<"started", "date", "time">>, TString),
     Field(<<"request">>, TStruct("Request")),
     Field(<<"response">>, TStruct("Response")),
     Field(<<"cache">>, TStruct("Cache")),
     Field(<<"timings">>, TStruct("Timing")),
     Field(<<"server", "ip", "address">>, TOption(TString)),
     Field(<<"connection">>, TOption(TString)),
     Field(<<"comment">>, TOption(TString)) >>

Request ==
  << Field(<<"method">>, TString),
     Field(<<"url">>, TString),
     Field(<<"http", "version">>, TString),
     Field(<<"cookies">>, TVec(TStruct("Cookie"))),
     Field(<<"headers">>, TVec(TStruct("Header"))),
     Field(<<"query", "string">>, TVec(TStruct("QueryStringPair"))),
     Field(<<"post", "data">>, TOption(TStruct("PostData"))),
     Field(<<"headers", "size">>, TOption(TI32)),
     Field(<<"body", "size">>, TOption(TI32)),
     Field(<<"comment">>, TOption(TString)) >>

Response ==
  << Field(<<"status">>, TI32),
     Field(<<"status", "text">>, TString),
     Field(<<"http", "version">>, TString),
     Field(<<"cookies">>, TVec(TStruct("Cookie"))),
     Field(<<"headers">>, TVec(TStruct("Header"))),
     Field(<<"content">>, TStruct("Content")),
     Field(<<"redirect", "url">>, TString),
     Field(<<"headers", "size">>, TOption(TI32)),
     Field(<<"body", "size">>, TOption(TI32)),
     Field(<<"comment">>, TOption(TString)) >>

Cookie ==
  << Field(<<"name">>, TString),
     Field(<<"value">>, TString),
     Field(<<"path">>, TOption(TString)),
     Field(<<"domain">>, TOption(TString)),
     Field(<<"expires">>, TOption(TString)),
     Field(<<"http", "only">>, TOption(TBool)),
     Field(<<"secure">>, TOption(TBool)),
     Field(<<"comment">>, TOption(TString)) >>

Header ==
  << Field(<<"name">>, TString),
     Field(<<"value">>, TString),
     Field(<<"comment">>, TOption(TString)) >>

QueryStringPair ==
  << Field(<<"name">>, TString),
     Field(<<"value">>, TString),
     Field(<<"comment">>, TOption(TString)) >>

PostData ==
  << Field(<<"mime", "type">>, TString),
     Field(<<"params">>, TVec(TStruct("Param"))),
     Field(<<"text">>, TString),
     Field(<<"comment">>, TOption(TString)) >>

Param ==
  << Field(<<"name">>, TString),
     Field(<<"value">>, TOption(TString)),
     Field(<<"file", "name">>, TOption(TString)),
     Field(<<"content", "type">>, TOption(TString)),
     Field(<<"comment">>, TOption(TString)) >>

Content ==
  << Field(<<"size">>, TI32),
     Field(<<"compression">>, TOption(TI32)),
     Field(<<"mime", "type">>, TString),
     Field(<<"text">>, TOption(TString)),
     Field(<<"encoding">>, TOption(TString)),
     Field(<<"comment">>, TOption(TString)) >>

Cache ==
  << Field(<<"before", "request">>, TEnum("CacheState")),
     Field(<<"after", "request">>, TEnum("CacheState")),
     Field(<<"comment">>, TOption(TString)) >>

CacheState ==
  << Variant(<<"Absent">>, <<>>),
     Variant(<<"Present">>, <<TStruct("CacheEntry")>>),
     Variant(<<"Unknown">>, <<>>) >>

CacheEntry ==
  << Field(<<"expires">>, TOption(TString)),
     Field(<<"last", "access">>, TString),
     Field(<<"e", "tag">>, TString),
     Field(<<"hit", "count">>, TI32),
     Field(<<"comment">>, TOption(TString)) >>

OptionalTiming ==
  << Variant(<<"Timed", "Content">>, <<TU32>>),
     Variant(<<"Not", "Applicable">>, <<>>) >>

Timing ==
  << Field(<<"blocked">>, TEnum("OptionalTiming")),
     Field(<<"dns">>, TEnum("OptionalTiming")),
     Field(<<"connect">>, TEnum("OptionalTiming")),
     Field(<<"send">>, TU32),
     Field(<<"wait">>, TU32),
     Field(<<"receive">>, TU32),
     Field(<<"ssl">>, TEnum("OptionalTiming")),
     Field(<<"comment">>, TOption(TString)) >>

StructNames ==
  { "Log", "Creator", "Browser", "Page", "PageTimings", "Entry", "Request",
    "Response", "Cookie", "Header", "QueryStringPair", "PostData", "Param",
    "Content", "Cache", "CacheEntry", "Timing" }

EnumNames == { "OptionalTiming", "CacheState" }

\* The fields of a struct, in declaration order.
Fields(n) ==
  CASE n = "Log" -> Log
    [] n = "Creator" -> Creator
    [] n = "Browser" -> Browser
    [] n = "Page" -> Page
    [] n = "PageTimings" -> PageTimings
    [] n = "Entry" -> Entry
    [] n = "Request" -> Request
    [] n = "Response" -> Response
    [] n = "Cookie" -> Cookie
    [] n = "Header" -> Header
    [] n = "QueryStringPair" -> QueryStringPair
    [] n = "PostData" -> PostData
    [] n = "Param" -> Param
    [] n = "Content" -> Content
    [] n = "Cache" -> Cache
    [] n = "CacheEntry" -> CacheEntry
    [] n = "Timing" -> Timing

\* The variants of an enum, in declaration order.
Variants(n) ==
  CASE n = "OptionalTiming" -> OptionalTiming
    [] n = "CacheState" -> CacheState

\* The entity types a codec call can be made for.
Types == { TStruct(n) : n \in StructNames } \cup { TEnum(n) : n \in EnumNames }

-----------------------------------------------------------------------------
(* Names.  A field is declared in snake_case and a variant in PascalCase;  *)
(* rename_all = "camelCase" gives the wire name: for a field, every word   *)
(* after the first gets its first letter in upper case and the "_" are     *)
(* dropped; for a variant, the first letter is put in lower case.          *)

\* A word with its first letter in upper case.
Capitalize(s) ==
  CASE s = "access" -> "Access"
    [] s = "address" -> "Address"
    [] s = "content" -> "Content"
    [] s = "count" -> "Count"
    [] s = "data" -> "Data"
    [] s = "date" -> "Date"
    [] s = "ip" -> "Ip"
    [] s = "load" -> "Load"
    [] s = "name" -> "Name"
    [] s = "only" -> "Only"
    [] s = "request" -> "Request"
    [] s = "size" -> "Size"
    [] s = "string" -> "String"
    [] s = "tag" -> "Tag"
    [] s = "text" -> "Text"
    [] s = "time" -> "Time"
    [] s = "timings" -> "Timings"
    [] s = "type" -> "Type"
    [] s = "url" -> "Url"
    [] s = "version" -> "Version"

\* A word with its first letter in lower case.
Uncapitalize(s) ==
  CASE s = "Absent" -> "absent"
    [] s = "Not" -> "not"
    [] s = "Present" -> "present"
    [] s = "Timed" -> "timed"
    [] s = "Unknown" -> "unknown"

\* The words of w (no name of lib.rs has more than three), each after the
\* first preceded by sep.
Join(w, sep) ==
  IF Len(w) = 1 THEN w[1]
  ELSE IF Len(w) = 2 THEN w[1] \o sep \o w[2]
  ELSE w[1] \o sep \o w[2] \o sep \o w[3]

\* The Rust name of a field: its words joined by "_".
SnakeCase(w) == Join(w, "_")

\* The Rust name of a variant: its words run together.
PascalCase(w) == Join(w, "")

\* The wire key of a field.
CamelCase(w) ==
  Join([i \in 1..Len(w) |-> IF i = 1 THEN w[i] ELSE Capitalize(w[i])], "")

\* The wire name of a variant.
VariantKey(w) ==
  Join([i \in 1..Len(w) |-> IF i = 1 THEN Uncapitalize(w[i]) ELSE w[i]], "")

\* A field with its Rust name and its wire key.
FieldRow(f) ==
  [ w |-> f.w, ty |-> f.ty, name |-> SnakeCase(f.w), key |-> CamelCase(f.w) ]

\* A variant with its Rust name and its wire name.
VariantRow(v) ==
  [ w |-> v.w, payload |-> v.payload, tag |-> PascalCase(v.w), key |-> VariantKey(v.w) ]

FieldRows(fs) == [i \in 1..Len(fs) |-> FieldRow(fs[i])]
VariantRows(vs) == [i \in 1..Len(vs) |-> VariantRow(vs[i])]

\* Every struct's fields, each with its Rust name and its wire key.
StructTable == [n \in StructNames |-> FieldRows(Fields(n))]

\* Every enum's variants, each with its Rust name and its wire name.
EnumTable == [n \in EnumNames |-> VariantRows(Variants(n))]

\* The place of each field among the rows of its struct, by Rust name and by
\* wire key.
IndexByName(rows) ==
  [name \in { rows[i].name : i \in DOMAIN rows } |->
     CHOOSE i \in DOMAIN rows : rows[i].name = name]

IndexByKey(rows) ==
  [key \in { rows[i].key : i \in DOMAIN rows } |->
     CHOOSE i \in DOMAIN rows : rows[i].key = key]

NameIndex == [n \in StructNames |-> IndexByName(StructTable[n])]

KeyIndex == [n \in StructNames |-> IndexByKey(StructTable[n])]

SetOf(rows) == { rows[i] : i \in DOMAIN rows }

FieldSet(n) == SetOf(StructTable[n])
VariantSet(n) == SetOf(EnumTable[n])
FieldNames(n) == DOMAIN NameIndex[n]
FieldKeys(n) == DOMAIN KeyIndex[n]
FieldOfKey(n, key) == StructTable[n][KeyIndex[n][key]]
FieldOfName(n, name) == StructTable[n][NameIndex[n][name]]
VariantOfTag(n, tag) == CHOOSE v \in VariantSet(n) : v.tag = tag

-----------------------------------------------------------------------------
(* Values.  A struct value is a function from its Rust field names, an     *)
(* Option is <<>> (None) or <<x>> (Some(x)), a Vec is a sequence, an enum  *)
(* value is its variant's Rust name with the payload of a newtype variant. *)

None == <<>>
Some(x) == <<x>>
IsNone(o) == Len(o) = 0
UnitValue(tag) == [tag |-> tag]
NewtypeValue(tag, x) == [tag |-> tag, v |-> x]

(* JSON values. *)
JNull == [t |-> "null"]
JBool(b) == [t |-> "bool", b |-> b]
JNum(n) == [t |-> "num", n |-> n]
\* An integer above u32::MAX (it has no value here: every integer of the
\* model is within i32).
JHuge == [t |-> "huge"]
JStr(s) == [t |-> "str", s |-> s]
JArr(a) == [t |-> "arr", a |-> a]
JObj(m) == [t |-> "obj", m |-> m]
EmptyMap == [key \in {} |-> JNull]
HasKey(j, key) == j.t = "obj" /\ key \in DOMAIN j.m

-----------------------------------------------------------------------------
(* The derived codec.  Serialize is serde_json::to_value of a value of     *)
(* type T; Deserialize is serde_json::from_value (from_str of the text) at *)
(* type T, and returns Ok(value) or Err(kind).                             *)

Ok(x) == [ok |-> TRUE, v |-> x]
Err(kind) == [ok |-> FALSE, err |-> kind]

\* The integers an i32 and a u32 hold.
InI32(n) == n >= -2147483647 - 1 /\ n <= 2147483647
InU32(n) == n >= 0

RECURSIVE Serialize(_, _)
RECURSIVE Deserialize(_, _)

\* Codecs the derived one is compared with.  Each differs from the derived
\* codec in one rule; the properties below tell them apart.

\* An enum written untagged: a unit variant as null, a newtype variant as
\* its bare payload.
SerializeEnumUntagged(T, x) ==
  LET v == VariantOfTag(T.name, x.tag)
  IN  IF v.payload = <<>> THEN JNull ELSE Serialize(v.payload[1], x.v)

\* An empty Vec written as null instead of [].
SerializeVecNullable(T, x) ==
  IF x = <<>> THEN JNull
  ELSE JArr([i \in 1..Len(x) |-> Serialize(T.of, x[i])])

\* A u32 read without the range check.
DeserializeU32Unchecked(j) ==
  IF j.t # "num" THEN Err("invalid_type") ELSE Ok(j.n)

\* A missing key is an error for every type, Option included.
MissingFieldStrict(T) ==
  Err("missing_field")

\* A missing key of a Vec is the empty Vec (as under #[serde(default)]).
MissingFieldDefault(T) ==
  IF T.k = "Option" THEN Ok(None)
  ELSE IF T.k = "Vec" THEN Ok(<<>>)
  ELSE Err("missing_field")

\* A missing key of a String is the empty String.
MissingFieldLenient(T) ==
  IF T.k = "Option" THEN Ok(None)
  ELSE IF T.k = "String" THEN Ok("")
  ELSE Err("missing_field")

\* An Option whose value is not a T is None.
DeserializeOptionLenient(T, j) ==
  IF j.t = "null" THEN Ok(None)
  ELSE LET r == Deserialize(T.of, j)
       IN  IF r.ok THEN Ok(Some(r.v)) ELSE Ok(None)

\* An Option whose None has no document: writing it is an error.
SerializeOptionFails(T, x) ==
  IF IsNone(x) THEN Err("custom") ELSE Serialize(T.of, x[1])

\* A Vec written last element first.
SerializeVecReversed(T, x) ==
  JArr([i \in 1..Len(x) |-> Serialize(T.of, x[Len(x) + 1 - i])])

\* A String read from a number as well.
DeserializeStringCoercing(j) ==
  IF j.t = "str" THEN Ok(j.s)
  ELSE IF j.t = "num" THEN Ok("0")
  ELSE Err("invalid_type")

\* A u32 that reads -1 as 0.
DeserializeU32Sentinel(j) ==
  IF j.t = "huge" THEN Err("invalid_value")
  ELSE IF j.t # "num" THEN Err("invalid_type")
  ELSE IF j.n = -1 THEN Ok(0)
  ELSE IF j.n >= 0 THEN Ok(j.n) ELSE Err("invalid_value")

\* An Option that reads the empty array as None.
DeserializeOptionNormalising(T, j) ==
  IF j.t = "null" \/ j = JArr(<<>>) THEN Ok(None)
  ELSE LET r == Deserialize(T.of, j)
       IN  IF r.ok THEN Ok(Some(r.v)) ELSE r

\* Option<T>: None is written as null, Some(x) as x is.
SerializeOption(T, x) ==
  IF IsNone(x) THEN JNull ELSE Serialize(T.of, x[1])

\* Vec<T>: an array of the elements, in order.
SerializeVec(T, x) ==
  JArr([i \in 1..Len(x) |-> Serialize(T.of, x[i])])

\* A struct: an object with one key per declared field, whatever its value.
SerializeStruct(T, x) ==
  JObj([key \in FieldKeys(T.name) |->
          LET f == FieldOfKey(T.name, key)
          IN  Serialize(f.ty, x[f.name])])

\* An enum, externally tagged: a unit variant is the string of its name, a
\* newtype variant is an object with its name as the only key.
SerializeEnum(T, x) ==
  LET v == VariantOfTag(T.name, x.tag)
  IN  IF v.payload = <<>>
      THEN JStr(v.key)
      ELSE JObj([key \in {v.key} |-> Serialize(v.payload[1], x.v)])

Serialize(T, x) ==
  CASE T.k = "String" -> JStr(x)
    [] T.k = "i32" -> JNum(x)
    [] T.k = "u32" -> JNum(x)
    [] T.k = "bool" -> JBool(x)
    [] T.k = "Option" -> SerializeOption(T, x)
    [] T.k = "Vec" -> SerializeVec(T, x)
    [] T.k = "struct" -> SerializeStruct(T, x)
    [] T.k = "enum" -> SerializeEnum(T, x)

DeserializeString(j) ==
  IF j.t = "str" THEN Ok(j.s) ELSE Err("invalid_type")

DeserializeI32(j) ==
  IF j.t = "huge" THEN Err("invalid_value")
  ELSE IF j.t # "num" THEN Err("invalid_type")
  ELSE IF InI32(j.n) THEN Ok(j.n) ELSE Err("invalid_value")

DeserializeU32(j) ==
  IF j.t = "huge" THEN Err("invalid_value")
  ELSE IF j.t # "num" THEN Err("invalid_type")
  ELSE IF InU32(j.n) THEN Ok(j.n) ELSE Err("invalid_value")

DeserializeBool(j) ==
  IF j.t = "bool" THEN Ok(j.b) ELSE Err("invalid_type")

\* Option<T>: null is None, anything else is read as a T.
DeserializeOption(T, j) ==
  IF j.t = "null" THEN Ok(None)
  ELSE LET r == Deserialize(T.of, j)
       IN  IF r.ok THEN Ok(Some(r.v)) ELSE r

\* Vec<T>: an array, element by element; the first failure is the result.
DeserializeVec(T, j) ==
  IF j.t # "arr" THEN Err("invalid_type")
  ELSE LET rs == [i \in 1..Len(j.a) |-> Deserialize(T.of, j.a[i])]
           bad == { i \in 1..Len(j.a) : ~rs[i].ok }
       IN  IF bad # {}
           THEN rs[CHOOSE i \in bad : \A k \in bad : i <= k]
           ELSE Ok([i \in 1..Len(j.a) |-> rs[i].v])

\* A field whose key the object does not hold: None for an Option, an error
\* for every other type.
MissingField(T) ==
  IF T.k = "Option" THEN Ok(None) ELSE Err("missing_field")

\* A struct from an object: every key that names a field is read at the
\* field's type, every other key is skipped, and a field without a key is
\* MissingField.  A document is read with its keys in declaration order, so
\* the first value that fails is the result, and a missing field is reported
\* after the values.
DeserializeStructMap(T, m) ==
  LET fs == StructTable[T.name]
      here == { i \in 1..Len(fs) : fs[i].key \in DOMAIN m }
      rs == [i \in 1..Len(fs) |->
               IF i \in here THEN Deserialize(fs[i].ty, m[fs[i].key])
               ELSE MissingField(fs[i].ty)]
      badHere == { i \in here : ~rs[i].ok }
      badGone == { i \in (1..Len(fs)) \ here : ~rs[i].ok }
      First(S) == CHOOSE i \in S : \A k \in S : i <= k
  IN  IF badHere # {} THEN rs[First(badHere)]
      ELSE IF badGone # {} THEN rs[First(badGone)]
      ELSE Ok([name \in FieldNames(T.name) |->
                 rs[NameIndex[T.name][name]].v])

\* A struct from an array: the fields by position.
DeserializeStructSeq(T, a) ==
  LET fs == StructTable[T.name]
      n == IF Len(a) < Len(fs) THEN Len(a) ELSE Len(fs)
      rs == [i \in 1..n |-> Deserialize(fs[i].ty, a[i])]
      bad == { i \in 1..n : ~rs[i].ok }
  IN  IF bad # {} THEN rs[CHOOSE i \in bad : \A k \in bad : i <= k]
      ELSE IF Len(a) < Len(fs) THEN Err("invalid_length")
      ELSE IF Len(a) > Len(fs) THEN Err("trailing_characters")
      ELSE Ok([name \in FieldNames(T.name) |->
                 rs[NameIndex[T.name][name]].v])

\* A struct read as under #[serde(deny_unknown_fields)].
DeserializeStructDenyUnknown(T, j) ==
  CASE j.t = "obj" ->
         IF DOMAIN j.m \subseteq FieldKeys(T.name)
         THEN DeserializeStructMap(T, j.m)
         ELSE Err("unknown_field")
    [] j.t = "arr" -> DeserializeStructSeq(T, j.a)
    [] OTHER -> Err("invalid_type")

DeserializeStruct(T, j) ==
  CASE j.t = "obj" -> DeserializeStructMap(T, j.m)
    [] j.t = "arr" -> DeserializeStructSeq(T, j.a)
    [] OTHER -> Err("invalid_type")

\* An enum: a string names a unit variant; an object with exactly one key
\* names a variant and holds its payload (null for a unit variant); nothing
\* else is an enum.
DeserializeEnum(T, j) ==
  LET Named(key) == { v \in VariantSet(T.name) : v.key = key }
  IN  CASE j.t = "str" ->
             IF Named(j.s) = {} THEN Err("unknown_variant")
             ELSE LET v == CHOOSE v \in Named(j.s) : TRUE
                  IN  IF v.payload = <<>> THEN Ok(UnitValue(v.tag))
                      ELSE Err("invalid_type")
        [] j.t = "obj" ->
             IF Cardinality(DOMAIN j.m) # 1 THEN Err("expected_value")
             ELSE LET key == CHOOSE key \in DOMAIN j.m : TRUE
                  IN  IF Named(key) = {} THEN Err("unknown_variant")
                      ELSE LET v == CHOOSE v \in Named(key) : TRUE
                               r == Deserialize(v.payload[1], j.m[key])
                           IN  IF v.payload = <<>>
                               THEN IF j.m[key].t = "null"
                                    THEN Ok(UnitValue(v.tag))
                                    ELSE Err("invalid_type")
                               ELSE IF r.ok
                                    THEN Ok(NewtypeValue(v.tag, r.v))
                                    ELSE r
        [] OTHER -> Err("expected_value")

Deserialize(T, j) ==
  CASE T.k = "String" -> DeserializeString(j)
    [] T.k = "i32" -> DeserializeI32(j)
    [] T.k = "u32" -> DeserializeU32(j)
    [] T.k = "bool" -> DeserializeBool(j)
    [] T.k = "Option" -> DeserializeOption(T, j)
    [] T.k = "Vec" -> DeserializeVec(T, j)
    [] T.k = "struct" -> DeserializeStruct(T, j)
    [] T.k = "enum" -> DeserializeEnum(T, j)

-----------------------------------------------------------------------------
(* The values and the documents the codec is run on.                       *)

Levels == { "min", "mid", "max" }

RECURSIVE Base(_, _)
\* A value of type T: at "min" every Option is None, every Vec is empty and
\* every enum is its last (unit) variant; at "mid" every Option is Some,
\* every Vec has one element and every enum is its first variant; at "max"
\* every Option is Some, every Vec has MaxLen elements and every enum is its
\* first variant with a payload.
Base(T, lv) ==
  CASE T.k = "String" -> IF lv = "max" THEN "b" ELSE "a"
    [] T.k = "i32" -> IF lv = "min" THEN 0 ELSE IF lv = "mid" THEN -1 ELSE MaxNum
    [] T.k = "u32" -> IF lv = "min" THEN 0 ELSE IF lv = "mid" THEN 1 ELSE MaxNum
    [] T.k = "bool" -> lv = "max"
    [] T.k = "Option" ->
         IF lv = "min" THEN None
         ELSE Some(Base(T.of, IF lv = "mid" THEN "min" ELSE "max"))
    [] T.k = "Vec" ->
         IF lv = "min" THEN <<>>
         ELSE IF lv = "mid" THEN << Base(T.of, "min") >>
         ELSE [i \in 1..MaxLen |-> Base(T.of, IF i = 1 THEN "max" ELSE "mid")]
    [] T.k = "struct" ->
         [name \in FieldNames(T.name) |-> Base(FieldOfName(T.name, name).ty, lv)]
    [] T.k = "enum" ->
         LET vs == EnumTable[T.name]
             v == IF lv = "min" THEN vs[Len(vs)]
                  ELSE IF lv = "mid" THEN vs[1]
                  ELSE vs[CHOOSE i \in 1..Len(vs) : /\ vs[i].payload # <<>>
                                                    /\ \A k \in 1..(i - 1) : vs[k].payload = <<>>]
         IN  IF v.payload = <<>> THEN UnitValue(v.tag)
             ELSE NewtypeValue(v.tag, Base(v.payload[1], IF lv = "mid" THEN "min" ELSE lv))

\* The sequences of at most n elements of S.
SeqsUpTo(S, n) == UNION { [1..k -> S] : k \in 0..n }

RECURSIVE Dom(_)
\* The values a field of type T is given.
Dom(T) ==
  CASE T.k = "String" -> { "a", "b" }
    [] T.k = "i32" -> (-1)..MaxNum
    [] T.k = "u32" -> 0..MaxNum
    [] T.k = "bool" -> BOOLEAN
    [] T.k = "Option" -> { None } \cup { Some(x) : x \in Dom(T.of) }
    [] T.k = "Vec" -> SeqsUpTo({ Base(T.of, "min"), Base(T.of, "max") }, MaxLen)
    [] T.k = "struct" -> { Base(T, lv) : lv \in Levels }
    [] T.k = "enum" ->
         UNION { IF v.payload = <<>> THEN { UnitValue(v.tag) }
                 ELSE { NewtypeValue(v.tag, x) : x \in Dom(v.payload[1]) }
                 : v \in VariantSet(T.name) }

\* Two elements of the struct E that differ but have the same name (none
\* when E has no field called name).
Twins(E) ==
  IF E.k = "struct" /\ "name" \in FieldNames(E.name)
  THEN { << Base(E, "min"), [Base(E, "max") EXCEPT !.name = Base(E, "min").name] >> }
  ELSE {}

\* The values of an entity type the codec is run on: for a struct, the three
\* base values and each of them with one field changed to every value of
\* the field's domain, and to two elements of the same name when the field
\* is a list of named elements; for an enum, all its values.
Values(T) ==
  IF T.k = "enum" THEN Dom(T)
  ELSE UNION { { Base(T, lv) } \cup
               UNION { { [Base(T, lv) EXCEPT ![f.name] = x] :
                           x \in Dom(f.ty) \cup
                                 (IF f.ty.k = "Vec" THEN Twins(f.ty.of) ELSE {}) } :
                       f \in FieldSet(T.name) } : lv \in Levels }

\* The wire key the documents of the test module use for a field.
HarKey(f) ==
  IF f.w = <<"redirect", "url">> THEN "redirectURL"
  ELSE IF f.w = <<"server", "ip", "address">> THEN "serverIPAddress"
  ELSE CamelCase(f.w)

\* Whether the documents of the test module leave out the key of field f
\* when its value is x: an Option that is None (headersSize and bodySize
\* are written as -1 instead) and a CacheState that is Unknown.
HarOmits(f, x) ==
  \/ /\ f.ty.k = "Option"
     /\ IsNone(x)
     /\ f.w \notin { <<"headers", "size">>, <<"body", "size">> }
  \/ /\ f.ty = TEnum("CacheState")
     /\ x.tag = "Unknown"

RECURSIVE HarDocument(_, _)
\* The HAR 1.2 document the test module pairs with value x of type T.
HarDocument(T, x) ==
  CASE T.k = "String" -> JStr(x)
    [] T.k = "i32" -> JNum(x)
    [] T.k = "u32" -> JNum(x)
    [] T.k = "bool" -> JBool(x)
    [] T.k = "Option" -> IF IsNone(x) THEN JNum(-1) ELSE HarDocument(T.of, x[1])
    [] T.k = "Vec" -> JArr([i \in 1..Len(x) |-> HarDocument(T.of, x[i])])
    [] T.k = "struct" ->
         LET kept == { f \in FieldSet(T.name) : ~HarOmits(f, x[f.name]) }
         IN  JObj([key \in { HarKey(f) : f \in kept } |->
                     LET f == CHOOSE f \in kept : HarKey(f) = key
                     IN  HarDocument(f.ty, x[f.name])])
    [] T = TEnum("OptionalTiming") ->
         IF x.tag = "TimedContent" THEN JNum(x.v) ELSE JNum(-1)
    [] T = TEnum("CacheState") ->
         IF x.tag = "Present" THEN HarDocument(TStruct("CacheEntry"), x.v) ELSE JNull

\* JSON values of every JSON type, to put where a document expects another.
Scalars ==
  { JNull, JStr("a"), JBool(TRUE), JArr(<<>>), JArr(<< JNull >>), JObj(EmptyMap),
    JHuge }
    \cup { JNum(n) : n \in (-2)..MaxNum }

\* Document j with one key removed, with one key given another value, or
\* with the key "time", which no struct declares, added.
Edits(j) ==
  IF j.t # "obj" THEN {}
  ELSE { JObj([key \in DOMAIN j.m \ {gone} |-> j.m[key]]) : gone \in DOMAIN j.m }
         \cup { JObj([j.m EXCEPT ![key] = s]) : key \in DOMAIN j.m, s \in Scalars }
         \cup { JObj([key \in DOMAIN j.m \cup {"time"} |->
                        IF key = "time" THEN JNum(1) ELSE j.m[key]]) }

\* The documents decoded at type T: the derived and the HAR 1.2 form of
\* every value, the edits of the forms of the base values, the scalars and,
\* for an enum, every scalar under every variant's name.
Documents(T) ==
  LET forms(x) == { Serialize(T, x), HarDocument(T, x) }
  IN  UNION { forms(x) : x \in Values(T) }
        \cup UNION { Edits(j) : j \in UNION { forms(Base(T, lv)) : lv \in Levels } }
        \cup Scalars
        \cup (IF T.k # "enum" THEN {}
              ELSE { JObj([key \in {v.key} |-> s]) : v \in VariantSet(T.name), s \in Scalars })

-----------------------------------------------------------------------------
(* The document model's operations. *)

HAR_VERSION == "1.2"
HAR_CREATOR_NAME == "Rust-HAR"
HAR_CREATOR_VERSION == "0.0.4"

\* Log::new with the pages present and empty.
Log_newEmptyPages(browser, comment) ==
  [ version |-> HAR_VERSION,
    creator |-> [ name |-> HAR_CREATOR_NAME,
                  version |-> HAR_CREATOR_VERSION,
                  comment |-> None ],
    browser |-> browser,
    pages |-> Some(<<>>),
    entries |-> <<>>,
    comment |-> comment ]

\* add_page that creates the list without the page on first use.
PushPageLost(pages, page) ==
  IF IsNone(pages) THEN Some(<<>>) ELSE Some(Append(pages[1], page))

\* add_entry that puts the entry in front.
PushEntryFront(entries, entry) == << entry >> \o entries

\* Log::new
Log_new(browser, comment) ==
  [ version |-> HAR_VERSION,
    creator |-> [ name |-> HAR_CREATOR_NAME,
                  version |-> HAR_CREATOR_VERSION,
                  comment |-> None ],
    browser |-> browser,
    pages |-> None,
    entries |-> <<>>,
    comment |-> comment ]

\* The pages of a Log after add_page(page).
PushPage(pages, page) ==
  IF IsNone(pages) THEN Some(<< page >>) ELSE Some(Append(pages[1], page))

\* The entries of a Log after add_entry(entry).
PushEntry(entries, entry) == Append(entries, entry)

\* add_entry that forgets the pages.
AddEntryDropsPages(log, entry) ==
  [log EXCEPT !.entries = PushEntry(@, entry), !.pages = None]

\* add_entry that refuses an entry whose pageref is the id of no page.
AddEntryChecked(log, entry) ==
  LET ids == IF IsNone(log.pages) THEN {}
             ELSE { log.pages[1][i].id : i \in 1..Len(log.pages[1]) }
  IN  IF IsNone(entry.pageref) THEN [log EXCEPT !.entries = PushEntry(@, entry)]
      ELSE IF entry.pageref[1] \in ids
      THEN [log EXCEPT !.entries = PushEntry(@, entry)]
      ELSE log

\* add_page that does nothing while the Log has no entries.
AddPageAfterEntries(log, page) ==
  IF Len(log.entries) = 0 THEN log
  ELSE [log EXCEPT !.pages = PushPage(@, page)]

\* The Log after add_page(page).
AddPage(log, page) == [log EXCEPT !.pages = PushPage(@, page)]

\* The Log after add_entry(entry).
AddEntry(log, entry) == [log EXCEPT !.entries = PushEntry(@, entry)]

-----------------------------------------------------------------------------
(* The state: one value of the document model and one codec call on it.    *)

VARIABLES
  entity,    \* the type of the value, and the type a document is decoded at
  val,   \* the value constructed (NoValue when a document was received)
  wire,  \* the document: written by Encode, or received
  res,   \* what decoding the document returned
  out,   \* the document written from the decoded value
  calls, \* the calls that built the Log, in call order (history)
  op     \* the last operation

vars == << entity, val, wire, res, out, calls, op >>

NoValue == [nil |-> TRUE]
NoWire == [t |-> "none"]
NoResult == [pending |-> TRUE]

TLog == TStruct("Log")
BrowserArgs == { None, Some(Base(TStruct("Browser"), "max")) }
CommentArgs == { None, Some("a") }
PageArgs == { Base(TStruct("Page"), "min"), Base(TStruct("Page"), "max") }
EntryArgs == { Base(TStruct("Entry"), "min"), Base(TStruct("Entry"), "max") }

\* One call on a Log: the function's name and its arguments.
Call(f, args) == [f |-> f, args |-> args]

\* The documents of Logs as Log::new returns them: their derived form, their
\* form in the test module (test_log_no_optional) and the edits of these.
LogDocuments ==
  LET logs == { Log_new(browser, comment) :
                  browser \in BrowserArgs, comment \in CommentArgs }
      forms == UNION { { Serialize(TLog, x), HarDocument(TLog, x) } : x \in logs }
  IN  forms \cup UNION { Edits(j) : j \in forms }

\* A value is constructed: a Log by Log::new, any other by its literal.
InitValue ==
  /\ \/ /\ entity \in Types \ {TLog}
        /\ val \in Values(entity)
        /\ calls = <<>>
     \/ /\ entity = TLog
        /\ \E browser \in BrowserArgs, comment \in CommentArgs :
             /\ val = Log_new(browser, comment)
             /\ calls = << Call("new", << browser, comment >>) >>
  /\ wire = NoWire
  /\ res = NoResult
  /\ out = NoWire
  /\ op = "new"

\* A document is received, to be decoded at type entity.
InitDocument ==
  /\ entity \in Types
  /\ val = NoValue
  /\ wire \in Documents(entity) \cup (IF entity = TLog THEN LogDocuments ELSE {})
  /\ res = NoResult
  /\ out = NoWire
  /\ calls = <<>>
  /\ op = "recv"

Init == InitValue \/ InitDocument

Building == op \in { "new", "add_page", "add_entry" }

\* Log::add_page
add_page(page) ==
  /\ Building
  /\ (IF IsNone(val.pages) THEN 0 ELSE Len(val.pages[1])) < MaxLen
  /\ val' = AddPage(val, page)
  /\ calls' = Append(calls, Call("add_page", << page >>))
  /\ op' = "add_page"
  /\ UNCHANGED << entity, wire, res, out >>

\* Log::add_entry
add_entry(entry) ==
  /\ Building
  /\ Len(val.entries) < MaxLen
  /\ val' = AddEntry(val, entry)
  /\ calls' = Append(calls, Call("add_entry", << entry >>))
  /\ op' = "add_entry"
  /\ UNCHANGED << entity, wire, res, out >>

\* serde_json's to_string / to_value of the value.
Encode ==
  /\ Building
  /\ wire' = Serialize(entity, val)
  /\ op' = "encode"
  /\ UNCHANGED << entity, val, res, out, calls >>

\* serde_json's from_str / from_value of the document, at type entity.
Decode ==
  /\ op \in { "encode", "recv" }
  /\ res' = Deserialize(entity, wire)
  /\ op' = "decode"
  /\ UNCHANGED << entity, val, wire, out, calls >>

\* serde_json's to_string / to_value of the value that was decoded.
Reencode ==
  /\ op = "decode"
  /\ res.ok
  /\ out' = Serialize(entity, res.v)
  /\ op' = "reencode"
  /\ UNCHANGED << entity, val, wire, res, calls >>

Next ==
  \/ entity = TLog /\ \E page \in PageArgs : add_page(page)
  \/ entity = TLog /\ \E entry \in EntryArgs : add_entry(entry)
  \/ Encode
  \/ Decode
  \/ Reencode

Spec == Init /\ [][Next]_vars

-----------------------------------------------------------------------------
(* Properties. *)

Decoded == op = "decode"
Encoded == op = "encode"
\* A document was received and decoded (no value was encoded into it).
Received == op = "decode" /\ val = NoValue
IsStruct == entity.k = "struct"
TOptionalTiming == TEnum("OptionalTiming")
TCacheState == TEnum("CacheState")
TCacheEntry == TStruct("CacheEntry")
OptionFields == { f \in FieldSet(entity.name) : f.ty.k = "Option" }
VecFields == { f \in FieldSet(entity.name) : f.ty.k = "Vec" }
TimingFields == { f \in FieldSet(entity.name) : f.ty = TOptionalTiming }
CacheFields == { f \in FieldSet(entity.name) : f.ty = TCacheState }

\* Whether every field of the received object outside S has a value the
\* decoder accepts (so that a failure can only come from a field of S).
OthersValid(S) ==
  \A f \in FieldSet(entity.name) \ S :
    IF f.key \in DOMAIN wire.m THEN Deserialize(f.ty, wire.m[f.key]).ok
    ELSE MissingField(f.ty).ok

\* C1: a value that is encoded and then decoded at its own type comes back:
\* decoding succeeds and returns the value that was encoded, for every
\* entity type and with every Option both None and Some.
C1_RoundTrip ==
  (Decoded /\ val # NoValue) => res = Ok(val)

C1_Witness ==
  /\ Decoded
  /\ entity = TStruct("Cookie")
  /\ val # NoValue
  /\ IsNone(val.path)
  /\ ~IsNone(val.domain)
  /\ res = Ok(val)

\* C2 (as claimed): an encoded OptionalTiming field is a JSON number under
\* the field's key: v for TimedContent(v), -1 for NotApplicable.
C2_TimingIsNumber ==
  (Encoded /\ IsStruct) =>
    \A f \in TimingFields :
      /\ HasKey(wire, f.key)
      /\ wire.m[f.key] = IF val[f.name].tag = "TimedContent"
                         THEN JNum(val[f.name].v) ELSE JNum(-1)

\* C3 (as claimed): in a PageTimings or a Timing, an OptionalTiming key that
\* holds the number n decodes to TimedContent(n) when n >= 0 and to
\* NotApplicable when n = -1.
C3_NumberIsTiming ==
  (Received /\ IsStruct /\ wire.t = "obj") =>
    \A f \in TimingFields :
      ( /\ HasKey(wire, f.key)
        /\ wire.m[f.key].t = "num"
        /\ wire.m[f.key].n >= -1
        /\ OthersValid({f}) )
      => /\ res.ok
         /\ res.v[f.name] = IF wire.m[f.key].n >= 0
                            THEN NewtypeValue("TimedContent", wire.m[f.key].n)
                            ELSE UnitValue("NotApplicable")

\* Every OptionalTiming held anywhere in the value x of type T.
RECURSIVE TimingsIn(_, _)
TimingsIn(T, x) ==
  CASE T = TOptionalTiming -> {x}
    [] T.k = "Option" -> IF IsNone(x) THEN {} ELSE TimingsIn(T.of, x[1])
    [] T.k = "Vec" -> UNION { TimingsIn(T.of, x[i]) : i \in 1..Len(x) }
    [] T.k = "struct" ->
         UNION { TimingsIn(f.ty, x[f.name]) : f \in FieldSet(T.name) }
    [] T.k = "enum" /\ T # TOptionalTiming ->
         LET v == VariantOfTag(T.name, x.tag)
         IN  IF v.payload = <<>> THEN {} ELSE TimingsIn(v.payload[1], x.v)
    [] OTHER -> {}

\* The received document holds a number below -1 where an OptionalTiming is
\* read: as the whole document, or under the key of an OptionalTiming field.
NegativeTiming ==
  \/ entity = TOptionalTiming /\ wire.t = "num" /\ wire.n < -1
  \/ /\ IsStruct
     /\ wire.t = "obj"
     /\ \E f \in TimingFields :
          /\ HasKey(wire, f.key)
          /\ wire.m[f.key].t = "num"
          /\ wire.m[f.key].n < -1

ExpectedCacheState(m, key) ==
  IF key \notin DOMAIN m THEN UnitValue("Unknown")
  ELSE IF m[key] = JNull THEN UnitValue("Absent")
  ELSE NewtypeValue("Present", Deserialize(TCacheEntry, m[key]).v)

\* C5 (as claimed): in a Cache, each of beforeRequest and afterRequest decodes
\* on its own: a missing key to Unknown, null to Absent, a valid CacheEntry
\* object to Present of that entry.
C5_CacheKeys ==
  ( /\ Decoded
    /\ entity = TStruct("Cache")
    /\ wire.t = "obj"
    /\ OthersValid(CacheFields)
    /\ \A f \in CacheFields :
         \/ f.key \notin DOMAIN wire.m
         \/ wire.m[f.key] = JNull
         \/ /\ wire.m[f.key].t = "obj"
            /\ Deserialize(TCacheEntry, wire.m[f.key]).ok )
  => /\ res.ok
     /\ \A f \in CacheFields :
          res.v[f.name] = ExpectedCacheState(wire.m, f.key)

\* C6 (as claimed): a Cache encodes each CacheState in its own form: Unknown
\* leaves the key out, Absent writes null, Present(entry) writes the object
\* of the entry.
C6_CacheForms ==
  (Encoded /\ entity = TStruct("Cache")) =>
    \A f \in CacheFields :
      CASE val[f.name].tag = "Unknown" -> f.key \notin DOMAIN wire.m
        [] val[f.name].tag = "Absent" ->
             HasKey(wire, f.key) /\ wire.m[f.key] = JNull
        [] val[f.name].tag = "Present" ->
             /\ HasKey(wire, f.key)
             /\ wire.m[f.key] = Serialize(TCacheEntry, val[f.name].v)

\* C7 (as claimed): an Option field that is None leaves its key out of the
\* encoded object (it is never written as null); one that is Some(x) writes
\* the encoding of x.
C7_NoneIsOmitted ==
  (Encoded /\ IsStruct) =>
    \A f \in OptionFields :
      IF IsNone(val[f.name]) THEN f.key \notin DOMAIN wire.m
      ELSE /\ HasKey(wire, f.key)
           /\ wire.m[f.key] = Serialize(f.ty.of, val[f.name][1])

Without(m, key) == [x \in DOMAIN m \ {key} |-> m[x]]
With(m, key, j) == [x \in DOMAIN m \cup {key} |-> IF x = key THEN j ELSE m[x]]

\* C8: for every Option field, an object without the key and the same object
\* with null under the key decode alike; the field comes out as None, and
\* decoding succeeds whenever the other fields are acceptable.
C8_MissingAndNullAreNone ==
  (Decoded /\ IsStruct /\ wire.t = "obj") =>
    \A f \in OptionFields :
      (IF HasKey(wire, f.key) THEN wire.m[f.key] = JNull ELSE TRUE) =>
        ( /\ res = Deserialize(entity, JObj(Without(wire.m, f.key)))
          /\ res = Deserialize(entity, JObj(With(wire.m, f.key, JNull)))
          /\ (res.ok => IsNone(res.v[f.name]))
          /\ (OthersValid({f}) => res.ok) )

C8_Witness ==
  /\ Decoded
  /\ entity = TLog
  /\ wire.t = "obj"
  /\ ~HasKey(wire, "pages")
  /\ HasKey(wire, "comment")
  /\ wire.m["comment"] = JNull
  /\ res.ok
  /\ IsNone(res.v.pages)
  /\ IsNone(res.v.comment)

\* C9: every Vec field is encoded as a JSON array under its key, with one
\* element per element of the Vec; an empty Vec is [], never a missing key
\* and never null.
C9_SequenceIsArray ==
  (Encoded /\ IsStruct) =>
    \A f \in VecFields :
      /\ HasKey(wire, f.key)
      /\ wire.m[f.key].t = "arr"
      /\ Len(wire.m[f.key].a) = Len(val[f.name])

C9_Witness ==
  /\ Encoded
  /\ entity = TStruct("Request")
  /\ val.cookies = <<>>
  /\ val.headers # <<>>
  /\ wire.m["cookies"] = JArr(<<>>)
  /\ wire.m["headers"].t = "arr"

\* C10 (as claimed): an object without the key of a Vec field decodes, and
\* the field is the empty Vec.
C10_MissingSequenceIsEmpty ==
  (Decoded /\ IsStruct /\ wire.t = "obj") =>
    \A f \in VecFields :
      (~HasKey(wire, f.key) /\ OthersValid({f})) =>
        (res.ok /\ res.v[f.name] = <<>>)

\* C10 (amended): an object without the key of a Vec field does not decode:
\* no empty Vec is put in its place, and when every other field is
\* acceptable the error is the missing field.
C10_MissingSequenceFails ==
  (Decoded /\ IsStruct /\ wire.t = "obj") =>
    \A f \in VecFields :
      ~HasKey(wire, f.key) =>
        ( /\ ~res.ok
          /\ (OthersValid({f}) => res = Err("missing_field")) )

C10_Witness ==
  /\ Decoded
  /\ entity = TStruct("Request")
  /\ wire.t = "obj"
  /\ ~HasKey(wire, "cookies")
  /\ HasKey(wire, "headers")
  /\ res = Err("missing_field")

\* The fields that are neither an Option, a Vec nor an enum: the scalars,
\* the strings and the nested structs.
MandatoryFields ==
  { f \in FieldSet(entity.name) :
      f.ty.k \in { "String", "i32", "u32", "bool", "struct" } }

\* C11: an object without the key of a mandatory scalar, string or nested
\* struct field does not decode: no default is put in its place, and when
\* every other field is acceptable the error is the missing field.
C11_MissingMandatoryFails ==
  (Decoded /\ IsStruct /\ wire.t = "obj") =>
    \A f \in MandatoryFields :
      ~HasKey(wire, f.key) =>
        ( /\ ~res.ok
          /\ (OthersValid({f}) => res = Err("missing_field")) )

C11_Witness ==
  /\ Decoded
  /\ entity = TCacheEntry
  /\ wire.t = "obj"
  /\ ~HasKey(wire, "eTag")
  /\ HasKey(wire, "lastAccess")
  /\ HasKey(wire, "hitCount")
  /\ res = Err("missing_field")

\* The object m without the keys that name no field of T.
SchemaPart(T, m) == [key \in DOMAIN m \cap FieldKeys(T.name) |-> m[key]]

\* C12: keys that name no field have no effect: an object decodes to what
\* the object without them decodes to, the decoded value holds nothing under
\* "time", and the document written from it has the keys of the fields only.
C12_ExtraKeysIgnored ==
  /\ (op \in { "decode", "reencode" } /\ IsStruct /\ wire.t = "obj") =>
       /\ res = Deserialize(entity, JObj(SchemaPart(entity, wire.m)))
       /\ (res.ok => "time" \notin DOMAIN res.v)
  /\ (op = "reencode" /\ IsStruct) =>
       /\ out.t = "obj"
       /\ DOMAIN out.m \subseteq FieldKeys(entity.name)
       /\ "time" \notin DOMAIN out.m

C12_Witness ==
  /\ op = "reencode"
  /\ entity = TStruct("Entry")
  /\ wire.t = "obj"
  /\ HasKey(wire, "time")
  /\ res.ok
  /\ ~HasKey(out, "time")

\* The document of test_log_no_optional.
MinimalLog ==
  JObj([key \in { "version", "creator", "entries" } |->
          CASE key = "version" -> JStr("1.2")
            [] key = "creator" ->
                 JObj([k2 \in { "name", "version" } |->
                         IF k2 = "name" THEN JStr("Rust-HAR") ELSE JStr("0.0.4")])
            [] key = "entries" -> JArr(<<>>)])

\* C13: Log::new(browser, comment) returns version "1.2", the creator
\* "Rust-HAR" "0.0.4" without comment, the browser and the comment it was
\* given, no pages and no entries; and Log::new(None, None) is what the
\* document with version, creator and an empty entries array decodes to.
C13_LogNew ==
  /\ (op = "new" /\ entity = TLog) =>
       /\ val.version = "1.2"
       /\ val.creator = [ name |-> "Rust-HAR", version |-> "0.0.4",
                          comment |-> None ]
       /\ val.browser = calls[1].args[1]
       /\ val.comment = calls[1].args[2]
       /\ IsNone(val.pages)
       /\ val.entries = <<>>
  /\ (Received /\ entity = TLog /\ wire = MinimalLog) =>
       res = Ok(Log_new(None, None))

C13_Witness ==
  /\ Received
  /\ entity = TLog
  /\ wire = MinimalLog
  /\ res.ok
  /\ res.v = Log_new(None, None)

\* The arguments of the calls of the function named, in call order.
ArgsOf(name) ==
  LET sel == SelectSeq(calls, LAMBDA c : c.f = name)
  IN  [i \in 1..Len(sel) |-> sel[i].args[1]]

\* C14: in a Log built by Log::new, add_page and add_entry, the pages are
\* None exactly while add_page was not called, they are never Some of the
\* empty Vec, and after the first add_page they hold one page.
C14_PagesNeverEmpty ==
  (entity = TLog /\ val # NoValue) =>
    /\ IsNone(val.pages) <=> ArgsOf("add_page") = <<>>
    /\ ~IsNone(val.pages) => Len(val.pages[1]) >= 1
    /\ Len(ArgsOf("add_page")) = 1 =>
         (~IsNone(val.pages) /\ Len(val.pages[1]) = 1)

C14_Witness ==
  /\ op = "add_page"
  /\ Len(calls) = 3
  /\ calls[2].f = "add_entry"
  /\ calls[3].f = "add_page"
  /\ ~IsNone(val.pages)
  /\ Len(val.pages[1]) = 1

\* C15: in a Log built by Log::new, add_page and add_entry, the entries are
\* the arguments of the add_entry calls in call order, and the pages, when
\* present, the arguments of the add_page calls in call order.
C15_AppendInCallOrder ==
  (entity = TLog /\ val # NoValue) =>
    /\ val.entries = ArgsOf("add_entry")
    /\ IF IsNone(val.pages) THEN ArgsOf("add_page") = <<>>
       ELSE val.pages[1] = ArgsOf("add_page")

C15_Witness ==
  /\ op = "add_entry"
  /\ Len(val.entries) = 2
  /\ val.entries[1] # val.entries[2]
  /\ ~IsNone(val.pages)
  /\ Len(val.pages[1]) = 2
  /\ val.pages[1][1] # val.pages[1][2]
  /\ calls[2].f = "add_page"

\* C16 (as claimed): the document of a Log on which add_page was not called
\* has no pages key; after exactly one add_page the pages key holds an array
\* of one element.
C16_PagesKeyOnEncode ==
  (Encoded /\ entity = TLog) =>
    /\ ArgsOf("add_page") = <<>> => ~HasKey(wire, "pages")
    /\ Len(ArgsOf("add_page")) = 1 =>
         /\ HasKey(wire, "pages")
         /\ wire.m["pages"].t = "arr"
         /\ Len(wire.m["pages"].a) = 1

\* C17 (as claimed): the document with only version, creator and an empty
\* entries array decodes to a Log without browser, pages and comment and
\* without entries, and the document written from that Log has exactly the
\* top-level keys of the one decoded.
C17_MinimalLogKeys ==
  (op \in { "decode", "reencode" } /\ entity = TLog /\ wire = MinimalLog) =>
    /\ res.ok
    /\ IsNone(res.v.browser)
    /\ IsNone(res.v.pages)
    /\ IsNone(res.v.comment)
    /\ res.v.entries = <<>>
    /\ op = "reencode" => (out.t = "obj" /\ DOMAIN out.m = DOMAIN wire.m)

SizeFields ==
  { f \in FieldSet(entity.name) :
      f.w \in { <<"headers", "size">>, <<"body", "size">> } }

\* C18 (as claimed): in a Request or a Response, headersSize and bodySize
\* holding the number -1 decode to None, and holding n >= 0 to Some(n).
C18_SizeSentinel ==
  ( /\ Decoded
    /\ entity \in { TStruct("Request"), TStruct("Response") }
    /\ wire.t = "obj" ) =>
    \A f \in SizeFields :
      ( /\ HasKey(wire, f.key)
        /\ wire.m[f.key].t = "num"
        /\ wire.m[f.key].n >= -1
        /\ OthersValid({f}) )
      => /\ res.ok
         /\ res.v[f.name] = IF wire.m[f.key].n = -1 THEN None
                            ELSE Some(wire.m[f.key].n)

\* C19 (as claimed): every field is written under, and read from, the key
\* the HAR documents use for it: redirectURL for Response's redirect_url and
\* serverIPAddress for Entry's server_ip_address among them.
C19_WireKeys ==
  /\ (Encoded /\ IsStruct) =>
       \A f \in MandatoryFields \cup VecFields : HasKey(wire, HarKey(f))
  /\ (Decoded /\ IsStruct /\ wire.t = "obj") =>
       \A f \in FieldSet(entity.name) :
         ( /\ f.ty \in { TString, TOption(TString) }
           /\ HasKey(wire, HarKey(f))
           /\ wire.m[HarKey(f)].t = "str"
           /\ OthersValid({f}) )
         => /\ res.ok
            /\ res.v[f.name] = IF f.ty = TString THEN wire.m[HarKey(f)].s
                               ELSE Some(wire.m[HarKey(f)].s)

\* Whether x is a fully populated value of type T.
RECURSIVE HasType(_, _)
HasType(T, x) ==
  CASE T.k = "String" -> x \in STRING
    [] T.k = "i32" -> x \in Int /\ InI32(x)
    [] T.k = "u32" -> x \in Nat
    [] T.k = "bool" -> x \in BOOLEAN
    [] T.k = "Option" -> Len(x) = 0 \/ (Len(x) = 1 /\ HasType(T.of, x[1]))
    [] T.k = "Vec" -> \A i \in 1..Len(x) : HasType(T.of, x[i])
    [] T.k = "struct" ->
         /\ DOMAIN x = FieldNames(T.name)
         /\ \A f \in FieldSet(T.name) : HasType(f.ty, x[f.name])
    [] T.k = "enum" ->
         \E v \in VariantSet(T.name) :
           /\ x.tag = v.tag
           /\ IF v.payload = <<>> THEN DOMAIN x = { "tag" }
              ELSE DOMAIN x = { "tag", "v" } /\ HasType(v.payload[1], x.v)

\* Whether document j, read at type T, holds something that is rejected: j
\* itself, or, when j is the object of a struct, one of the struct's fields.
FailsWithin(T, j) ==
  LET U == IF T.k = "Option" THEN T.of ELSE T
  IN  \/ ~Deserialize(T, j).ok
      \/ /\ j.t = "obj"
         /\ U.k = "struct"
         /\ \E g \in FieldSet(U.name) :
              IF g.key \in DOMAIN j.m THEN ~Deserialize(g.ty, j.m[g.key]).ok
              ELSE g.ty.k # "Option"
      \/ /\ j.t = "arr"
         /\ U.k = "Vec"
         /\ \E i \in 1..Len(j.a) : ~Deserialize(U.of, j.a[i]).ok

\* C20: decoding returns either a fully populated value of the type or an
\* error and nothing else; when a field, a field of a nested struct or an
\* element of a nested Vec is rejected, the whole document is rejected.
C20_AllOrNothing ==
  (op \in { "decode", "reencode" }) =>
    /\ res.ok => (DOMAIN res = { "ok", "v" } /\ HasType(entity, res.v))
    /\ ~res.ok => DOMAIN res = { "ok", "err" }
    /\ (IsStruct /\ wire.t = "obj") =>
         \A f \in FieldSet(entity.name) :
           (HasKey(wire, f.key) /\ FailsWithin(f.ty, wire.m[f.key])) => ~res.ok

C20_Witness ==
  /\ Decoded
  /\ entity = TLog
  /\ wire.t = "obj"
  /\ HasKey(wire, "browser")
  /\ wire.m["browser"] = JObj(EmptyMap)
  /\ OthersValid({ f \in FieldSet("Log") : f.key = "browser" })
  /\ ~res.ok

\* Whether j is a JSON document.
RECURSIVE IsJson(_)
IsJson(j) ==
  /\ DOMAIN j \subseteq { "t", "b", "n", "s", "a", "m" }
  /\ "t" \in DOMAIN j
  /\ CASE j.t = "null" -> DOMAIN j = { "t" }
       [] j.t = "bool" -> DOMAIN j = { "t", "b" } /\ j.b \in BOOLEAN
       [] j.t = "num" -> DOMAIN j = { "t", "n" } /\ j.n \in Int
       [] j.t = "str" -> DOMAIN j = { "t", "s" } /\ j.s \in STRING
       [] j.t = "arr" ->
            DOMAIN j = { "t", "a" } /\ \A i \in 1..Len(j.a) : IsJson(j.a[i])
       [] j.t = "obj" ->
            /\ DOMAIN j = { "t", "m" }
            /\ \A key \in DOMAIN j.m : key \in STRING /\ IsJson(j.m[key])
       [] OTHER -> FALSE

\* C21: writing a value never fails: whenever a value was constructed, by
\* Log::new, add_page and add_entry or directly, it can be written; what is
\* written from it, and from a value that was decoded, is a JSON document.
C21_EncodeSucceeds ==
  /\ Building => ENABLED Encode
  /\ Encoded => IsJson(wire)
  /\ (Decoded /\ res.ok) => ENABLED Reencode
  /\ op = "reencode" => IsJson(out)

C21_Witness ==
  /\ Encoded
  /\ entity = TLog
  /\ Len(calls) = 3
  /\ IsNone(val.comment)
  /\ IsJson(wire)

\* The type read under an Option, and T for every other type.
Inner(T) == IF T.k = "Option" THEN T.of ELSE T

\* Whether j has a JSON type that type T is never read from.
WrongType(T, j) ==
  LET U == Inner(T)
  IN  /\ ~(T.k = "Option" /\ j.t = "null")
      /\ CASE U.k = "String" -> j.t # "str"
           [] U.k \in { "i32", "u32" } -> j.t \notin { "num", "huge" }
           [] U.k = "bool" -> j.t # "bool"
           [] U.k = "Vec" -> j.t # "arr"
           [] U.k = "struct" -> j.t \notin { "obj", "arr" }
           [] OTHER -> FALSE

NamedListFields ==
  { f \in VecFields : "name" \in FieldNames(f.ty.of.name) }

\* C23: a list of named elements is written as the array of its elements in
\* order, and is read back as the same list, elements of the same name
\* included: nothing is merged, dropped or moved.
C23_ListsKeepOrder ==
  /\ (Encoded /\ IsStruct) =>
       \A f \in NamedListFields :
         /\ wire.m[f.key].t = "arr"
         /\ Len(wire.m[f.key].a) = Len(val[f.name])
         /\ \A i \in 1..Len(val[f.name]) :
              wire.m[f.key].a[i] = Serialize(f.ty.of, val[f.name][i])
  /\ (Decoded /\ val # NoValue /\ IsStruct) =>
       /\ res.ok
       /\ \A f \in NamedListFields : res.v[f.name] = val[f.name]

C23_Witness ==
  /\ Decoded
  /\ entity = TStruct("Request")
  /\ val # NoValue
  /\ Len(val.headers) = 2
  /\ val.headers[1].name = val.headers[2].name
  /\ val.headers[1] # val.headers[2]
  /\ res.ok
  /\ res.v.headers = val.headers

\* C24 (as claimed): a Cache in which beforeRequest or afterRequest holds an
\* object that is not a CacheEntry (lastAccess, eTag or hitCount missing or
\* of the wrong type) does not decode.
C24_BadCacheEntryFails ==
  (Decoded /\ entity = TStruct("Cache") /\ wire.t = "obj") =>
    \A f \in CacheFields :
      ( /\ HasKey(wire, f.key)
        /\ wire.m[f.key].t = "obj"
        /\ ~Deserialize(TCacheEntry, wire.m[f.key]).ok )
      => ~res.ok

\* The fields of Timing that are plain durations.
DurationFields ==
  { f \in FieldSet("Timing") : f.name \in { "send", "wait", "receive" } }

\* C25: send, wait and receive of a Timing are mandatory and non-negative:
\* a Timing in which one of them is missing or negative, -1 included, does
\* not decode, and what decodes holds the number that was given; the
\* OptionalTiming fields of Timing are blocked, dns, connect and ssl.
C25_PlainDurations ==
  /\ { f.name : f \in { g \in FieldSet("Timing") : g.ty = TOptionalTiming } }
       = { "blocked", "dns", "connect", "ssl" }
  /\ (Decoded /\ entity = TStruct("Timing") /\ wire.t = "obj") =>
       \A f \in DurationFields :
         /\ f.ty = TU32
         /\ (IF HasKey(wire, f.key)
             THEN wire.m[f.key].t = "num" /\ wire.m[f.key].n < 0
             ELSE TRUE) => ~res.ok
         /\ res.ok => /\ res.v[f.name] \in Nat
                      /\ wire.m[f.key] = JNum(res.v[f.name])

C25_Witness ==
  /\ Decoded
  /\ entity = TStruct("Timing")
  /\ wire.t = "obj"
  /\ HasKey(wire, "send")
  /\ wire.m["send"] = JNum(-1)
  /\ OthersValid({ f \in DurationFields : f.name = "send" })
  /\ res = Err("invalid_value")

\* C26 (as claimed): hitCount of a CacheEntry is a count without upper
\* bound: every integer n >= 0, however large, is accepted, and no decoded
\* CacheEntry holds a negative hit_count.
C26_HitCount ==
  (Decoded /\ entity = TCacheEntry) =>
    /\ res.ok => res.v.hit_count >= 0
    /\ ( /\ wire.t = "obj"
         /\ HasKey(wire, "hitCount")
         /\ IF wire.m["hitCount"].t = "num" THEN wire.m["hitCount"].n >= 0
            ELSE wire.m["hitCount"] = JHuge
         /\ OthersValid({ f \in FieldSet("CacheEntry") : f.key = "hitCount" }) )
       => res.ok

\* Whether the document j of a Log has the pages key with the empty array.
EmptyPages(j) ==
  j.t = "obj" /\ HasKey(j, "pages") /\ j.m["pages"] = JArr(<<>>)

\* C27 (as claimed): present and empty pages exist nowhere: a log object
\* whose pages key is [] does not decode to a Log with pages Some of the
\* empty Vec, and no document written has the pages key with [].
C27_NoEmptyPages ==
  entity = TLog =>
    /\ (Decoded /\ EmptyPages(wire) /\ res.ok) => res.v.pages # Some(<<>>)
    /\ Encoded => ~EmptyPages(wire)
    /\ op = "reencode" => ~EmptyPages(out)

\* C27 (amended): a Log built by Log::new, add_page and add_entry never has
\* pages Some of the empty Vec and its document never has pages []; the
\* codec does not enforce this: a log object with pages [] decodes, when its
\* other fields are acceptable, to a Log with pages Some of the empty Vec,
\* and the document written from that Log has pages [] again.
C27_EmptyPagesOnlyDecoded ==
  entity = TLog =>
    /\ val # NoValue => val.pages # Some(<<>>)
    /\ Encoded => ~EmptyPages(wire)
    /\ (Decoded /\ EmptyPages(wire)) =>
         /\ res.ok => res.v.pages = Some(<<>>)
         /\ OthersValid({ f \in FieldSet("Log") : f.key = "pages" }) => res.ok
    /\ op = "reencode" => (EmptyPages(out) <=> res.v.pages = Some(<<>>))

C27_Witness ==
  /\ op = "reencode"
  /\ entity = TLog
  /\ EmptyPages(wire)
  /\ res.ok
  /\ res.v.pages = Some(<<>>)
  /\ EmptyPages(out)

\* The ids of the pages of a Log.
PageIds(log) ==
  IF IsNone(log.pages) THEN {}
  ELSE { log.pages[1][i].id : i \in 1..Len(log.pages[1]) }

\* An entry of the Log refers to a page the Log does not have.
Dangling(log) ==
  \E i \in 1..Len(log.entries) :
    /\ ~IsNone(log.entries[i].pageref)
    /\ log.entries[i].pageref[1] \notin PageIds(log)

\* Two pages of the Log have the same id.
DuplicateIds(log) ==
  /\ ~IsNone(log.pages)
  /\ \E i, k \in 1..Len(log.pages[1]) :
       i < k /\ log.pages[1][i].id = log.pages[1][k].id

\* C28: nothing checks pageref against the page ids: add_entry takes every
\* entry and add_page every page, whatever the Log holds, and stores what it
\* was given; a Log with an entry that refers to no page, or with two pages
\* of the same id, is written and read back unchanged.
C28_NoReferentialIntegrity ==
  entity = TLog =>
    /\ (Building /\ Len(val.entries) < MaxLen) =>
         \A entry \in EntryArgs : ENABLED add_entry(entry)
    /\ (Building /\ Len(ArgsOf("add_page")) < MaxLen) =>
         \A page \in PageArgs : ENABLED add_page(page)
    /\ op = "add_entry" =>
         /\ Len(val.entries) > 0
         /\ val.entries[Len(val.entries)] = calls[Len(calls)].args[1]
    /\ op = "add_page" =>
         /\ ~IsNone(val.pages)
         /\ val.pages[1][Len(val.pages[1])] = calls[Len(calls)].args[1]
    /\ (Decoded /\ val # NoValue /\ (Dangling(val) \/ DuplicateIds(val))) =>
         res = Ok(val)

C28_Witness ==
  /\ Decoded
  /\ entity = TLog
  /\ val # NoValue
  /\ Dangling(val)
  /\ DuplicateIds(val)
  /\ res = Ok(val)

\* What add_entry leaves alone in a step.
EntryFrame ==
  /\ val'.version = val.version
  /\ val'.creator = val.creator
  /\ val'.browser = val.browser
  /\ val'.comment = val.comment
  /\ val'.pages = val.pages
  /\ \A i \in 1..Len(val.entries) : val'.entries[i] = val.entries[i]

\* What add_page leaves alone in a step.
PageFrame ==
  /\ val'.version = val.version
  /\ val'.creator = val.creator
  /\ val'.browser = val.browser
  /\ val'.comment = val.comment
  /\ val'.entries = val.entries
  /\ IsNone(val.pages) \/
       \A i \in 1..Len(val.pages[1]) : val'.pages[1][i] = val.pages[1][i]

\* C29: add_entry changes nothing but the entries and add_page nothing but
\* the pages, and both keep the elements the list already had; so version
\* and creator stay what Log::new made them.
C29_Frame ==
  /\ [][ /\ op' = "add_entry" => EntryFrame
         /\ op' = "add_page" => PageFrame ]_vars
  /\ []( (entity = TLog /\ val # NoValue) =>
           /\ val.version = HAR_VERSION
           /\ val.creator = [ name |-> HAR_CREATOR_NAME,
                              version |-> HAR_CREATOR_VERSION,
                              comment |-> None ] )

C29_Witness ==
  /\ op = "add_entry"
  /\ Len(calls) = 4
  /\ ~IsNone(val.pages)
  /\ ~IsNone(val.browser)
  /\ Len(val.entries) = 2
  /\ val.version = "1.2"

\* C30: add_page and add_entry commute on every Log that is being built,
\* and after k add_page and m add_entry calls in any order the entries are
\* m and the pages are None when k = 0 and k otherwise.
C30_Commute ==
  (entity = TLog /\ Building) =>
    /\ \A page \in PageArgs, entry \in EntryArgs :
         AddEntry(AddPage(val, page), entry) = AddPage(AddEntry(val, entry), page)
    /\ Len(val.entries) = Len(ArgsOf("add_entry"))
    /\ IF ArgsOf("add_page") = <<>> THEN IsNone(val.pages)
       ELSE /\ ~IsNone(val.pages)
            /\ Len(val.pages[1]) = Len(ArgsOf("add_page"))

C30_Witness ==
  /\ op = "add_entry"
  /\ Len(calls) = 3
  /\ calls[2].f = "add_page"
  /\ calls[3].f = "add_entry"
  /\ val = AddPage(AddEntry(Log_new(calls[1].args[1], calls[1].args[2]),
                            calls[3].args[1]),
                   calls[2].args[1])

====
